---------------------------- MODULE Spec2Model ----------------------------
(***************************************************************************)
(* Orientation-sensing subsystem of the Water Feature Controller firmware. *)
(*                                                                         *)
(* The model follows source/motion_task.c: the Motion Sensor task          *)
(* (task_motion), the three bus operations it performs under the binary    *)
(* semaphore i2c_semaphore, the GPIO interrupt handler that notifies the   *)
(* task, and the orientation classification.  source/main.c and            *)
(* source/tft_task.c supply the process start-up and a second task that    *)
(* interleaves with the sensing task.                                      *)
(*                                                                         *)
(* FreeRTOS and the BMI160 / HAL drivers are libraries outside the         *)
(* repository.  Their calls are modelled at the call sites: the semaphore  *)
(* is a queue of length one, a task notification is the three-valued       *)
(* ucNotifyState of the task, and every driver call returns a result       *)
(* chosen from DriverResults.                                              *)
(***************************************************************************)
EXTENDS Integers, Sequences, FiniteSets, TLC

(***************************************************************************)
(* Bounds of the model.                                                    *)
(***************************************************************************)
\* number of times the orientation interrupt fires in one run
MaxFirings == 3
\* largest magnitude of an acceleration component returned by a bus read
MaxAccel == 1

(***************************************************************************)
(* Program constants.                                                      *)
(***************************************************************************)
CY_RSLT_SUCCESS == 0
\* a driver status other than CY_RSLT_SUCCESS
DriverResults == {CY_RSLT_SUCCESS, 1}

ORIENTATION_NULL        == 0
ORIENTATION_TOP_EDGE    == 1
ORIENTATION_BOTTOM_EDGE == 2
ORIENTATION_LEFT_EDGE   == 3
ORIENTATION_RIGHT_EDGE  == 4
ORIENTATION_DISP_UP     == 5
ORIENTATION_DISP_DOWN   == 6
orientation_t == ORIENTATION_NULL..ORIENTATION_DISP_DOWN

\* acceleration components a bus read can return in the task model
AccelVals == (0 - MaxAccel)..MaxAccel
Samples == [x : AccelVals, y : AccelVals, z : AccelVals]
\* content shown for a sample variable that has not been written yet
NoSample == [x |-> 0, y |-> 0, z |-> 0]

\* acceleration components used to exercise the classifier on its own:
\* the int16_t extremes, the values of the documented scenarios, and
\* small values around zero
ClassifierVals == {-32768, -900, -700, -600, -1, 0, 1, 10, 20, 50, 100, 700, 900, 32767}
ClassifierSamples == [x : ClassifierVals, y : ClassifierVals, z : ClassifierVals]

VARIABLES
    \* ---- program state ----
    mainPc,                     \* position of main()
    tasks,                      \* tasks known to the scheduler
    tftPc,                      \* position of tft_task
    motion_sensor_task_handle,  \* "NULL" or "motion"
    createResult,               \* value returned by create_motion_sensor_task
    taskState,                  \* scheduler state of the Motion Sensor task
    pc,                         \* position of task_motion
    i2c_semaphore,              \* "uninit", "NULL" or "handle"
    semCount,                   \* tokens in the binary semaphore (0 or 1)
    kit_i2c,                    \* state of the HAL I2C object
    motion_sensor,              \* state of the BMI160 sensor object
    irqRegistered,              \* the GPIO callback is registered and enabled
    ucNotifyState,              \* notification state of the Motion Sensor task
    result,                     \* the local 'result' of the running function
    orientation,                \* the local 'orientation' of task_motion
    data,                       \* the local 'data' of motionsensor_update_orientation
    orientation_result,         \* the argument of motionsensor_update_orientation
    \* ---- observation (history) variables ----
    holders,                    \* logical operations that hold i2c_semaphore
    busOps,                     \* bus operations in progress
    failure,                    \* first failure the task has observed, or "none"
    nFirings,                   \* interrupt firings so far
    nNotifies,                  \* notifications sent by the handler so far
    firedWhileBusy,             \* a firing has found the task not waiting
    firedSinceReturn,           \* firings since the last return from the wait
    faultFirings,               \* firings after the task observed a failure
    unserved,                   \* a firing no read has started after
    nWaitReturns,               \* returns from xTaskNotifyWait
    nInit,                      \* initializations started
    nConfig,                    \* interrupt configurations started
    initOK,                     \* motionsensor_init returned success
    configOK,                   \* motionsensor_config_interrupt returned success
    nReads,                     \* bus reads started
    busSample,                  \* sample delivered by the bus read of this iteration
    nReports,                   \* orientation reports emitted
    iterReports,                \* reports emitted in the current loop iteration
    reported,                   \* orientation reported in the current iteration
    lastReportIter              \* loop iteration (read number) of the last report

progVars == <<mainPc, tasks, tftPc, motion_sensor_task_handle, createResult, taskState, pc,
              i2c_semaphore, semCount, kit_i2c, motion_sensor, irqRegistered,
              ucNotifyState, result, orientation, data, orientation_result>>
histVars == <<holders, busOps, failure, nFirings, nNotifies, firedWhileBusy,
              firedSinceReturn, faultFirings, unserved, nWaitReturns, nInit, nConfig, initOK,
              configOK, nReads, busSample, nReports, iterReports, reported,
              lastReportIter>>
vars == <<progVars, histVars>>

\* groups used in UNCHANGED clauses
schedVars == <<mainPc, tasks, tftPc, motion_sensor_task_handle, createResult>>
busVars   == <<kit_i2c, motion_sensor, irqRegistered>>
irqHist   == <<nFirings, nNotifies, firedWhileBusy, firedSinceReturn, faultFirings>>
stageHist == <<nInit, nConfig, initOK, configOK>>
readHist  == <<nReads, busSample>>
reportHist == <<nReports, iterReports, reported, lastReportIter>>

(***************************************************************************)
(* Library primitives, as used at the call sites.                          *)
(***************************************************************************)
\* variant: a give that adds no token
xSemaphoreGive_Noop(count) == count

\* xSemaphoreGive on a binary semaphore: a queue of length one
xSemaphoreGive(count) == IF count < 1 THEN count + 1 ELSE count

\* variant: a take that leaves the token in the semaphore
xSemaphoreTake_NoDecrement(count) == count

\* xSemaphoreTake of an available token
xSemaphoreTake(count) == count - 1

\* variant: a CHECK_RESULT that prints the message and goes on
CHECK_RESULT_NoSuspend(r) == "ready"

\* CHECK_RESULT: the task state after the macro; vTaskSuspend(NULL) on failure
CHECK_RESULT(r) == IF r # CY_RSLT_SUCCESS THEN "suspended" ELSE "ready"

\* the first failure the task has observed
Observe(r, stage) == IF failure = "none" /\ r # CY_RSLT_SUCCESS THEN stage ELSE failure

\* the task is scheduled: the scheduler runs and the task is ready
Scheduled == mainPc = "running" /\ taskState = "ready"

(***************************************************************************)
(* Orientation classification, motionsensor_update_orientation.            *)
(***************************************************************************)
\* variant: magnitudes kept in int16_t variables, where 32768 wraps
Abs16_Signed(v) ==
    LET a == IF v < 0 THEN 0 - v ELSE v
    IN  IF a > 32767 THEN a - 65536 ELSE a

\* abs() of an int16_t component, stored in a uint16_t
Abs16(v) == (IF v < 0 THEN 0 - v ELSE v) % 65536

\* variant: the sign test of the z branch reversed
ClassifyOrientation_ZSignFlipped(d) ==
    LET abs_x == Abs16(d.x)
        abs_y == Abs16(d.y)
        abs_z == Abs16(d.z)
    IN  IF (abs_z > abs_x) /\ (abs_z > abs_y)
        THEN (IF d.z > 0 THEN ORIENTATION_DISP_DOWN ELSE ORIENTATION_DISP_UP)
        ELSE IF (abs_y > abs_x) /\ (abs_y > abs_z)
        THEN (IF d.y > 0 THEN ORIENTATION_BOTTOM_EDGE ELSE ORIENTATION_TOP_EDGE)
        ELSE (IF d.x < 0 THEN ORIENTATION_RIGHT_EDGE ELSE ORIENTATION_LEFT_EDGE)

\* variant: the sign test of the y branch reversed
ClassifyOrientation_YSignFlipped(d) ==
    LET abs_x == Abs16(d.x)
        abs_y == Abs16(d.y)
        abs_z == Abs16(d.z)
    IN  IF (abs_z > abs_x) /\ (abs_z > abs_y)
        THEN (IF d.z < 0 THEN ORIENTATION_DISP_DOWN ELSE ORIENTATION_DISP_UP)
        ELSE IF (abs_y > abs_x) /\ (abs_y > abs_z)
        THEN (IF d.y < 0 THEN ORIENTATION_BOTTOM_EDGE ELSE ORIENTATION_TOP_EDGE)
        ELSE (IF d.x < 0 THEN ORIENTATION_RIGHT_EDGE ELSE ORIENTATION_LEFT_EDGE)

\* variant: the x branch tests x <= 0
ClassifyOrientation_XZeroRight(d) ==
    LET abs_x == Abs16(d.x)
        abs_y == Abs16(d.y)
        abs_z == Abs16(d.z)
    IN  IF (abs_z > abs_x) /\ (abs_z > abs_y)
        THEN (IF d.z < 0 THEN ORIENTATION_DISP_DOWN ELSE ORIENTATION_DISP_UP)
        ELSE IF (abs_y > abs_x) /\ (abs_y > abs_z)
        THEN (IF d.y > 0 THEN ORIENTATION_BOTTOM_EDGE ELSE ORIENTATION_TOP_EDGE)
        ELSE (IF d.x <= 0 THEN ORIENTATION_RIGHT_EDGE ELSE ORIENTATION_LEFT_EDGE)

\* variant: the comparisons admit ties, z before y before x
ClassifyOrientation_TiesByPrecedence(d) ==
    LET abs_x == Abs16(d.x)
        abs_y == Abs16(d.y)
        abs_z == Abs16(d.z)
    IN  IF (abs_z >= abs_x) /\ (abs_z >= abs_y)
        THEN (IF d.z < 0 THEN ORIENTATION_DISP_DOWN ELSE ORIENTATION_DISP_UP)
        ELSE IF (abs_y >= abs_x) /\ (abs_y >= abs_z)
        THEN (IF d.y > 0 THEN ORIENTATION_BOTTOM_EDGE ELSE ORIENTATION_TOP_EDGE)
        ELSE (IF d.x < 0 THEN ORIENTATION_RIGHT_EDGE ELSE ORIENTATION_LEFT_EDGE)

\* variant: a tie leaves the value found in *orientation_result
ClassifyOrientation_KeepOnTie(d) ==
    LET abs_x == Abs16(d.x)
        abs_y == Abs16(d.y)
        abs_z == Abs16(d.z)
    IN  IF (abs_z > abs_x) /\ (abs_z > abs_y)
        THEN (IF d.z < 0 THEN ORIENTATION_DISP_DOWN ELSE ORIENTATION_DISP_UP)
        ELSE IF (abs_y > abs_x) /\ (abs_y > abs_z)
        THEN (IF d.y > 0 THEN ORIENTATION_BOTTOM_EDGE ELSE ORIENTATION_TOP_EDGE)
        ELSE IF (abs_x > abs_y) /\ (abs_x > abs_z)
        THEN (IF d.x < 0 THEN ORIENTATION_RIGHT_EDGE ELSE ORIENTATION_LEFT_EDGE)
        ELSE orientation

\* variant: the z branch wins a tie with x
ClassifyOrientation_ZTieWins(d) ==
    LET abs_x == Abs16(d.x)
        abs_y == Abs16(d.y)
        abs_z == Abs16(d.z)
    IN  IF (abs_z >= abs_x) /\ (abs_z > abs_y)
        THEN (IF d.z < 0 THEN ORIENTATION_DISP_DOWN ELSE ORIENTATION_DISP_UP)
        ELSE IF (abs_y > abs_x) /\ (abs_y > abs_z)
        THEN (IF d.y > 0 THEN ORIENTATION_BOTTOM_EDGE ELSE ORIENTATION_TOP_EDGE)
        ELSE (IF d.x < 0 THEN ORIENTATION_RIGHT_EDGE ELSE ORIENTATION_LEFT_EDGE)

ClassifyOrientation(d) ==
    LET abs_x == Abs16(d.x)
        abs_y == Abs16(d.y)
        abs_z == Abs16(d.z)
    IN  IF (abs_z > abs_x) /\ (abs_z > abs_y)
        THEN (IF d.z < 0 THEN ORIENTATION_DISP_DOWN ELSE ORIENTATION_DISP_UP)
        ELSE IF (abs_y > abs_x) /\ (abs_y > abs_z)
        THEN (IF d.y > 0 THEN ORIENTATION_BOTTOM_EDGE ELSE ORIENTATION_TOP_EDGE)
        ELSE (IF d.x < 0 THEN ORIENTATION_RIGHT_EDGE ELSE ORIENTATION_LEFT_EDGE)

(***************************************************************************)
(* Initial state: main() has not yet created a task.                       *)
(***************************************************************************)
Init ==
    /\ mainPc = "create_mqtt"
    /\ tasks = {}
    /\ tftPc = "none"
    /\ motion_sensor_task_handle = "NULL"
    /\ createResult = CY_RSLT_SUCCESS
    /\ taskState = "none"
    /\ pc = "none"
    /\ i2c_semaphore = "uninit"
    /\ semCount = 0
    /\ kit_i2c = "uninit"
    /\ motion_sensor = "uninit"
    /\ irqRegistered = FALSE
    /\ ucNotifyState = "NOT_WAITING"
    /\ result = CY_RSLT_SUCCESS
    /\ orientation = ORIENTATION_NULL
    /\ data = NoSample
    /\ orientation_result = "&orientation"
    /\ holders = {}
    /\ busOps = {}
    /\ failure = "none"
    /\ nFirings = 0
    /\ nNotifies = 0
    /\ firedWhileBusy = FALSE
    /\ firedSinceReturn = 0
    /\ faultFirings = 0
    /\ unserved = FALSE
    /\ nWaitReturns = 0
    /\ nInit = 0
    /\ nConfig = 0
    /\ initOK = FALSE
    /\ configOK = FALSE
    /\ nReads = 0
    /\ busSample = NoSample
    /\ nReports = 0
    /\ iterReports = 0
    /\ reported = ORIENTATION_NULL
    /\ lastReportIter = 0

(***************************************************************************)
(* main(): creates the MQTT client task and the TFT task, then starts the  *)
(* scheduler.                                                              *)
(***************************************************************************)
main_create_mqtt ==
    /\ mainPc = "create_mqtt"
    /\ mainPc' = "create_tft"
    /\ tasks' = tasks \cup {"mqtt"}
    /\ UNCHANGED <<orientation_result, tftPc, motion_sensor_task_handle, createResult, taskState, pc, i2c_semaphore,
                   semCount, busVars, ucNotifyState, result, orientation, data,
                   histVars>>

main_create_tft ==
    /\ mainPc = "create_tft"
    /\ mainPc' = "start_scheduler"
    /\ tasks' = tasks \cup {"tft"}
    /\ tftPc' = "init"
    /\ UNCHANGED <<orientation_result, motion_sensor_task_handle, createResult, taskState, pc, i2c_semaphore,
                   semCount, busVars, ucNotifyState, result, orientation, data,
                   histVars>>

main_start_scheduler ==
    /\ mainPc = "start_scheduler"
    /\ mainPc' = "running"
    /\ UNCHANGED <<orientation_result, tasks, tftPc, motion_sensor_task_handle, createResult, taskState, pc,
                   i2c_semaphore, semCount, busVars, ucNotifyState, result,
                   orientation, data, histVars>>

\* tft_task: initialization, then the display loop with its 100 ms delay
tft_task ==
    /\ mainPc = "running"
    /\ tftPc # "none"
    /\ tftPc' = IF tftPc = "loop" THEN "delay" ELSE "loop"
    /\ UNCHANGED <<orientation_result, mainPc, tasks, motion_sensor_task_handle, createResult, taskState, pc,
                   i2c_semaphore, semCount, busVars, ucNotifyState, result,
                   orientation, data, histVars>>

(***************************************************************************)
(* create_motion_sensor_task: xTaskCreate either creates the task and      *)
(* stores its handle, or fails and leaves the handle unassigned.  The      *)
(* function is the entry point of motion_task.c; main() itself has its     *)
(* call commented out, so the step is not a step of main(): it is taken    *)
(* by whoever calls the entry point, once, no earlier than the place       *)
(* main() reserves for it (after the TFT task is created).                 *)
(***************************************************************************)
\* the statuses xTaskCreate returns
pdPASS == 1
errCOULD_NOT_ALLOCATE_REQUIRED_MEMORY == -1
TaskCreateStatuses == {pdPASS, errCOULD_NOT_ALLOCATE_REQUIRED_MEMORY}

\* The cast (cy_rslt_t) status keeps the 32 bits of the BaseType_t; a
\* cy_rslt_t is written here as the signed number with the same 32 bits
\* (0xFFFFFFFF as -1), so that zero stays zero and nothing else becomes zero.
\* variant: the status returned as it is
CreateResult_Raw(status) == status

\* (status == pdPASS) ? CY_RSLT_SUCCESS : (cy_rslt_t) status
CreateResult(status) ==
    IF status = pdPASS THEN CY_RSLT_SUCCESS ELSE status

\* variant: xTaskCreate called without a place for the handle
create_motion_sensor_task_NoHandle ==
    /\ motion_sensor_task_handle = "NULL"
    /\ taskState = "none"
    /\ "tft" \in tasks
    /\ \E status \in TaskCreateStatuses :
          /\ createResult' = CreateResult(status)
          /\ IF status = pdPASS
             THEN /\ tasks' = tasks \cup {"motion"}
                  /\ taskState' = "ready"
                  /\ pc' = "start"
             ELSE /\ taskState' = "failed"
                  /\ UNCHANGED <<tasks, pc>>
    /\ UNCHANGED <<orientation_result, mainPc, tftPc, motion_sensor_task_handle,
                   i2c_semaphore, semCount, busVars, ucNotifyState,
                   result, orientation, data, histVars>>

create_motion_sensor_task ==
    /\ motion_sensor_task_handle = "NULL"
    /\ taskState = "none"
    /\ "tft" \in tasks
    /\ \E status \in TaskCreateStatuses :
          /\ createResult' = CreateResult(status)
          /\ IF status = pdPASS
             THEN /\ motion_sensor_task_handle' = "motion"
                  /\ tasks' = tasks \cup {"motion"}
                  /\ taskState' = "ready"
                  /\ pc' = "start"
             ELSE /\ taskState' = "failed"
                  /\ UNCHANGED <<motion_sensor_task_handle, tasks, pc>>
    /\ UNCHANGED <<orientation_result, mainPc, tftPc, i2c_semaphore, semCount, busVars, ucNotifyState,
                   result, orientation, data, histVars>>

(***************************************************************************)
(* task_motion: start-up.                                                  *)
(***************************************************************************)
\* xSemaphoreCreateBinary and CHECK_RESULT(i2c_semaphore == NULL)
task_create_semaphore ==
    /\ Scheduled /\ pc = "start"
    /\ \E h \in {"NULL", "handle"} :
          LET r == IF h = "NULL" THEN 1 ELSE 0
          IN  /\ i2c_semaphore' = h
              /\ semCount' = 0
              /\ taskState' = CHECK_RESULT(r)
              /\ failure' = Observe(r, "semaphore")
    /\ pc' = "give"
    \* the local 'orientation' of task_motion holds an indeterminate value
    /\ orientation' \in orientation_t
    /\ UNCHANGED <<orientation_result, schedVars, busVars, ucNotifyState, result, data, holders, busOps,
                   irqHist, unserved, nWaitReturns, stageHist, readHist, reportHist>>

\* variant: a start-up that leaves the new semaphore empty
task_give_semaphore_Skip ==
    /\ Scheduled /\ pc = "give"
    /\ pc' = "init_take"
    /\ UNCHANGED <<orientation_result, schedVars, taskState, i2c_semaphore,
                   semCount, busVars, ucNotifyState, result, orientation, data,
                   histVars>>

\* xSemaphoreGive(i2c_semaphore) that makes the new semaphore available
task_give_semaphore ==
    /\ Scheduled /\ pc = "give"
    /\ semCount' = xSemaphoreGive(semCount)
    /\ pc' = "init_take"
    /\ UNCHANGED <<orientation_result, schedVars, taskState, i2c_semaphore, busVars, ucNotifyState,
                   result, orientation, data, histVars>>

(***************************************************************************)
(* motionsensor_init.                                                      *)
(***************************************************************************)
\* xSemaphoreTake(i2c_semaphore, portMAX_DELAY): blocks while no token
init_take ==
    /\ Scheduled /\ pc = "init_take"
    /\ semCount > 0
    /\ semCount' = xSemaphoreTake(semCount)
    /\ holders' = holders \cup {"init"}
    /\ result' = CY_RSLT_SUCCESS
    /\ pc' = "i2c_init"
    /\ UNCHANGED <<orientation_result, schedVars, taskState, i2c_semaphore, busVars, ucNotifyState,
                   orientation, data, busOps, failure, irqHist, unserved,
                   nWaitReturns, stageHist, readHist, reportHist>>

\* cyhal_i2c_init and CHECK_RESULT
init_i2c_init ==
    /\ Scheduled /\ pc = "i2c_init"
    /\ \E r \in DriverResults :
          /\ result' = r
          /\ kit_i2c' = IF r = CY_RSLT_SUCCESS THEN "initialized" ELSE kit_i2c
          /\ taskState' = CHECK_RESULT(r)
          /\ failure' = Observe(r, "i2c_init")
          /\ busOps' = IF r = CY_RSLT_SUCCESS THEN busOps \cup {"init"} ELSE busOps
    /\ nInit' = nInit + 1
    /\ pc' = "i2c_configure"
    /\ UNCHANGED <<orientation_result, schedVars, i2c_semaphore, semCount, motion_sensor, irqRegistered,
                   ucNotifyState, orientation, data, holders, irqHist, unserved,
                   nWaitReturns, nConfig, initOK, configOK, readHist, reportHist>>

\* cyhal_i2c_configure and CHECK_RESULT
init_i2c_configure ==
    /\ Scheduled /\ pc = "i2c_configure"
    /\ \E r \in DriverResults :
          /\ result' = r
          /\ kit_i2c' = IF r = CY_RSLT_SUCCESS THEN "configured" ELSE kit_i2c
          /\ taskState' = CHECK_RESULT(r)
          /\ failure' = Observe(r, "i2c_configure")
          /\ busOps' = IF r = CY_RSLT_SUCCESS THEN busOps ELSE busOps \ {"init"}
    /\ pc' = "bmi160_init"
    /\ UNCHANGED <<orientation_result, schedVars, i2c_semaphore, semCount, motion_sensor, irqRegistered,
                   ucNotifyState, orientation, data, holders, irqHist, unserved,
                   nWaitReturns, stageHist, readHist, reportHist>>

\* mtb_bmi160_init_i2c: the last bus transaction of the initialization
init_bmi160_init ==
    /\ Scheduled /\ pc = "bmi160_init"
    /\ \E r \in DriverResults :
          /\ result' = r
          /\ motion_sensor' = IF r = CY_RSLT_SUCCESS THEN "initialized" ELSE motion_sensor
    /\ busOps' = busOps \ {"init"}
    /\ pc' = "init_give"
    /\ UNCHANGED <<orientation_result, schedVars, taskState, i2c_semaphore, semCount, kit_i2c,
                   irqRegistered, ucNotifyState, orientation, data, holders,
                   failure, irqHist, unserved, nWaitReturns, stageHist, readHist,
                   reportHist>>

\* variant: a task_motion that goes from initialization straight to the loop
init_give_SkipConfig ==
    /\ Scheduled /\ pc = "init_give"
    /\ semCount' = xSemaphoreGive(semCount)
    /\ holders' = holders \ {"init"}
    /\ taskState' = CHECK_RESULT(result)
    /\ failure' = Observe(result, "sensor_init")
    /\ initOK' = (result = CY_RSLT_SUCCESS)
    /\ pc' = "update"
    /\ UNCHANGED <<orientation_result, schedVars, i2c_semaphore, busVars, ucNotifyState, result,
                   orientation, data, busOps, irqHist, unserved, nWaitReturns,
                   nInit, nConfig, configOK, readHist, reportHist>>

\* xSemaphoreGive, return result, and CHECK_RESULT in task_motion
init_give ==
    /\ Scheduled /\ pc = "init_give"
    /\ semCount' = xSemaphoreGive(semCount)
    /\ holders' = holders \ {"init"}
    /\ taskState' = CHECK_RESULT(result)
    /\ failure' = Observe(result, "sensor_init")
    /\ initOK' = (result = CY_RSLT_SUCCESS)
    /\ pc' = "config_take"
    /\ UNCHANGED <<orientation_result, schedVars, i2c_semaphore, busVars, ucNotifyState, result,
                   orientation, data, busOps, irqHist, unserved, nWaitReturns,
                   nInit, nConfig, configOK, readHist, reportHist>>

(***************************************************************************)
(* motionsensor_config_interrupt.                                          *)
(***************************************************************************)
\* variant: a configuration that does not take the semaphore
config_take_NoLock ==
    /\ Scheduled /\ pc = "config_take"
    /\ result' = CY_RSLT_SUCCESS
    /\ pc' = "config_int"
    /\ UNCHANGED <<orientation_result, schedVars, taskState, i2c_semaphore, semCount, busVars,
                   ucNotifyState, orientation, data, holders, busOps, failure,
                   irqHist, unserved, nWaitReturns, stageHist, readHist,
                   reportHist>>

config_take ==
    /\ Scheduled /\ pc = "config_take"
    /\ semCount > 0
    /\ semCount' = xSemaphoreTake(semCount)
    /\ holders' = holders \cup {"config"}
    /\ result' = CY_RSLT_SUCCESS
    /\ pc' = "config_int"
    /\ UNCHANGED <<orientation_result, schedVars, taskState, i2c_semaphore, busVars, ucNotifyState,
                   orientation, data, busOps, failure, irqHist, unserved,
                   nWaitReturns, stageHist, readHist, reportHist>>

\* mtb_bmi160_config_int begins: the driver registers the GPIO callback at
\* some point of the call, possibly before the sensor is configured
config_int_begin ==
    /\ Scheduled /\ pc = "config_int"
    /\ busOps' = busOps \cup {"config"}
    /\ nConfig' = nConfig + 1
    /\ irqRegistered' \in BOOLEAN
    /\ pc' = "config_int_end"
    /\ UNCHANGED <<orientation_result, schedVars, taskState, i2c_semaphore, semCount, kit_i2c,
                   motion_sensor, ucNotifyState, result, orientation, data,
                   holders, failure, irqHist, unserved, nWaitReturns, nInit,
                   initOK, configOK, readHist, reportHist>>

\* mtb_bmi160_config_int returns: on success the interrupt is armed
config_int_end ==
    /\ Scheduled /\ pc = "config_int_end"
    /\ \E r \in DriverResults :
          /\ result' = r
          /\ motion_sensor' = IF r = CY_RSLT_SUCCESS THEN "int_configured" ELSE motion_sensor
          /\ irqRegistered' = IF r = CY_RSLT_SUCCESS THEN TRUE ELSE irqRegistered
    /\ busOps' = busOps \ {"config"}
    /\ pc' = "config_give"
    /\ UNCHANGED <<orientation_result, schedVars, taskState, i2c_semaphore, semCount, kit_i2c,
                   ucNotifyState, orientation, data, holders, failure, irqHist,
                   unserved, nWaitReturns, stageHist, readHist, reportHist>>

\* variant: a loop that waits for a notification before its first read
config_give_WaitFirst ==
    /\ Scheduled /\ pc = "config_give"
    /\ semCount' = xSemaphoreGive(semCount)
    /\ holders' = holders \ {"config"}
    /\ taskState' = CHECK_RESULT(result)
    /\ failure' = Observe(result, "config_interrupt")
    /\ configOK' = (result = CY_RSLT_SUCCESS)
    /\ pc' = "wait"
    /\ UNCHANGED <<orientation_result, schedVars, i2c_semaphore, busVars, ucNotifyState, result,
                   orientation, data, busOps, irqHist, unserved, nWaitReturns,
                   nInit, nConfig, initOK, readHist, reportHist>>

\* xSemaphoreGive, return result, and CHECK_RESULT in task_motion
config_give ==
    /\ Scheduled /\ pc = "config_give"
    /\ semCount' = xSemaphoreGive(semCount)
    /\ holders' = holders \ {"config"}
    /\ taskState' = CHECK_RESULT(result)
    /\ failure' = Observe(result, "config_interrupt")
    /\ configOK' = (result = CY_RSLT_SUCCESS)
    /\ pc' = "update"
    /\ UNCHANGED <<orientation_result, schedVars, i2c_semaphore, busVars, ucNotifyState, result,
                   orientation, data, busOps, irqHist, unserved, nWaitReturns,
                   nInit, nConfig, initOK, readHist, reportHist>>

(***************************************************************************)
(* motionsensor_update_orientation and the loop of task_motion.            *)
(***************************************************************************)
\* variant: a switch whose ORIENTATION_DISP_DOWN case prints nothing
Printed_NoDispDown(o) == o \in {ORIENTATION_TOP_EDGE, ORIENTATION_BOTTOM_EDGE,
                                ORIENTATION_LEFT_EDGE, ORIENTATION_RIGHT_EDGE,
                                ORIENTATION_DISP_UP}

\* the case labels of the switch in task_motion that print an orientation
Printed(o) == o \in {ORIENTATION_TOP_EDGE, ORIENTATION_BOTTOM_EDGE,
                     ORIENTATION_LEFT_EDGE, ORIENTATION_RIGHT_EDGE,
                     ORIENTATION_DISP_UP, ORIENTATION_DISP_DOWN}

\* variant: a read whose sample never reaches 'data'
mtb_bmi160_read_Stale(r, sample, old) == old

\* what mtb_bmi160_read leaves in 'data': the sample on success
mtb_bmi160_read(r, sample, old) == IF r = CY_RSLT_SUCCESS THEN sample ELSE old

\* variant: a notification that is dropped unless the task is waiting
xTaskNotifyFromISR_OnlyIfWaiting(state) == IF state = "WAITING" THEN "RECEIVED" ELSE state

\* xTaskNotifyFromISR with eNoAction: the notification becomes pending
xTaskNotifyFromISR(state) == "RECEIVED"

\* variant: a wait that returns without consuming the notification
xTaskNotifyWaitExit_KeepPending(state) == state

\* the notification state when xTaskNotifyWait returns
xTaskNotifyWaitExit(state) == "NOT_WAITING"

\* the error stored when orientation_result is NULL; as a cy_rslt_t it is
\* written as the signed number with the same bits
BMI160_E_NULL_PTR == -1

\* variant: a call that does not clear *orientation_result
update_clear_NoClear ==
    /\ Scheduled /\ pc = "update"
    /\ IF orientation_result = "NULL"
       THEN /\ result' = BMI160_E_NULL_PTR
            /\ pc' = "classify"
       ELSE /\ result' = CY_RSLT_SUCCESS
            /\ pc' = "read_take"
    /\ data' = NoSample
    /\ busSample' = NoSample
    /\ iterReports' = 0
    /\ reported' = ORIENTATION_NULL
    /\ UNCHANGED <<orientation_result, orientation, schedVars, taskState,
                   i2c_semaphore, semCount, busVars,
                   ucNotifyState, holders, busOps, failure, irqHist,
                   unserved, nWaitReturns, stageHist, nReads, nReports,
                   lastReportIter>>

\* variant: a call that does not test orientation_result
update_clear_NoNullCheck ==
    /\ Scheduled /\ pc = "update"
    /\ result' = CY_RSLT_SUCCESS
    /\ orientation' = ORIENTATION_NULL
    /\ pc' = "read_take"
    /\ data' = NoSample
    /\ busSample' = NoSample
    /\ iterReports' = 0
    /\ reported' = ORIENTATION_NULL
    /\ UNCHANGED <<orientation_result, schedVars, taskState, i2c_semaphore,
                   semCount, busVars,
                   ucNotifyState, holders, busOps, failure, irqHist,
                   unserved, nWaitReturns, stageHist, nReads, nReports,
                   lastReportIter>>

\* a new call: 'result' and 'data' are fresh locals (data is not read before
\* the bus read writes it).  With a NULL orientation_result the function
\* stores BMI160_E_NULL_PTR in 'result' and goes to its return; otherwise
\* *orientation_result = ORIENTATION_NULL and the read follows
update_clear ==
    /\ Scheduled /\ pc = "update"
    /\ IF orientation_result = "NULL"
       THEN /\ result' = BMI160_E_NULL_PTR
            /\ pc' = "classify"
            /\ UNCHANGED orientation
       ELSE /\ result' = CY_RSLT_SUCCESS
            /\ orientation' = ORIENTATION_NULL
            /\ pc' = "read_take"
    /\ data' = NoSample
    /\ busSample' = NoSample
    /\ iterReports' = 0
    /\ reported' = ORIENTATION_NULL
    /\ UNCHANGED <<orientation_result, schedVars, taskState, i2c_semaphore, semCount, busVars,
                   ucNotifyState, holders, busOps, failure, irqHist,
                   unserved, nWaitReturns, stageHist, nReads, nReports,
                   lastReportIter>>

read_take ==
    /\ Scheduled /\ pc = "read_take"
    /\ semCount > 0
    /\ semCount' = xSemaphoreTake(semCount)
    /\ holders' = holders \cup {"read"}
    /\ pc' = "read"
    /\ UNCHANGED <<orientation_result, schedVars, taskState, i2c_semaphore, busVars, ucNotifyState,
                   result, orientation, data, busOps, failure, irqHist, unserved,
                   nWaitReturns, stageHist, readHist, reportHist>>

\* mtb_bmi160_read begins its bus transaction
read_begin ==
    /\ Scheduled /\ pc = "read"
    /\ busOps' = busOps \cup {"read"}
    /\ nReads' = nReads + 1
    /\ unserved' = FALSE
    /\ pc' = "read_end"
    /\ UNCHANGED <<orientation_result, schedVars, taskState, i2c_semaphore, semCount, busVars,
                   ucNotifyState, result, orientation, data, holders, failure,
                   irqHist, nWaitReturns, stageHist, busSample, reportHist>>

\* mtb_bmi160_read returns a status and, on success, the sample
read_end ==
    /\ Scheduled /\ pc = "read_end"
    /\ \E r \in DriverResults, sample \in Samples :
          /\ result' = r
          /\ data' = mtb_bmi160_read(r, sample, data)
          /\ busSample' = IF r = CY_RSLT_SUCCESS THEN sample ELSE busSample
    /\ busOps' = busOps \ {"read"}
    /\ pc' = "read_give"
    /\ UNCHANGED <<orientation_result, schedVars, taskState, i2c_semaphore, semCount, busVars,
                   ucNotifyState, orientation, holders, failure, irqHist,
                   unserved, nWaitReturns, stageHist, nReads, reportHist>>

read_give ==
    /\ Scheduled /\ pc = "read_give"
    /\ semCount' = xSemaphoreGive(semCount)
    /\ holders' = holders \ {"read"}
    /\ pc' = "classify"
    /\ UNCHANGED <<orientation_result, schedVars, taskState, i2c_semaphore, busVars, ucNotifyState,
                   result, orientation, data, busOps, failure, irqHist, unserved,
                   nWaitReturns, stageHist, readHist, reportHist>>

\* variant: a failed read stops the program, as CY_ASSERT does in main()
update_classify_Assert ==
    /\ Scheduled /\ pc = "classify"
    /\ orientation' = IF result = CY_RSLT_SUCCESS
                      THEN ClassifyOrientation(data) ELSE orientation
    /\ mainPc' = IF result # CY_RSLT_SUCCESS THEN "halted" ELSE mainPc
    /\ failure' = Observe(result, "read")
    /\ pc' = "report"
    /\ UNCHANGED <<orientation_result, tasks, tftPc, motion_sensor_task_handle, createResult,
                   taskState, i2c_semaphore, semCount, busVars, ucNotifyState,
                   result, data, holders, busOps, irqHist, unserved,
                   nWaitReturns, stageHist, readHist, reportHist>>

\* if (result == CY_RSLT_SUCCESS) classify; return result; CHECK_RESULT
update_classify ==
    /\ Scheduled /\ pc = "classify"
    /\ orientation' = IF result = CY_RSLT_SUCCESS
                      THEN ClassifyOrientation(data) ELSE orientation
    /\ taskState' = CHECK_RESULT(result)
    /\ failure' = Observe(result, "read")
    /\ pc' = "report"
    /\ UNCHANGED <<orientation_result, schedVars, i2c_semaphore, semCount, busVars, ucNotifyState,
                   result, data, holders, busOps, irqHist, unserved,
                   nWaitReturns, stageHist, readHist, reportHist>>

\* switch(orientation): one printf for each of the six orientations
task_report ==
    /\ Scheduled /\ pc = "report"
    /\ IF Printed(orientation)
       THEN /\ nReports' = nReports + 1
            /\ iterReports' = iterReports + 1
            /\ reported' = orientation
            /\ lastReportIter' = nReads
       ELSE UNCHANGED reportHist
    /\ pc' = "wait"
    /\ UNCHANGED <<orientation_result, schedVars, taskState, i2c_semaphore, semCount, busVars,
                   ucNotifyState, result, orientation, data, holders, busOps,
                   failure, irqHist, unserved, nWaitReturns, stageHist, readHist>>

\* variant: a wait whose block time has expired at once
task_wait_Timeout ==
    /\ Scheduled /\ pc = "wait"
    /\ IF ucNotifyState # "RECEIVED"
       THEN ucNotifyState' = "WAITING"
       ELSE UNCHANGED ucNotifyState
    /\ pc' = "wait_return"
    /\ UNCHANGED <<orientation_result, schedVars, taskState, i2c_semaphore, semCount, busVars,
                   result, orientation, data, histVars>>

\* xTaskNotifyWait(0, 0, NULL, portMAX_DELAY): blocks unless a notification
\* is pending
task_wait ==
    /\ Scheduled /\ pc = "wait"
    /\ IF ucNotifyState # "RECEIVED"
       THEN /\ ucNotifyState' = "WAITING"
            /\ taskState' = "blocked"
       ELSE UNCHANGED <<ucNotifyState, taskState>>
    /\ pc' = "wait_return"
    /\ UNCHANGED <<orientation_result, schedVars, i2c_semaphore, semCount, busVars, result,
                   orientation, data, histVars>>

\* xTaskNotifyWait returns once the task runs again
task_wait_return ==
    /\ Scheduled /\ pc = "wait_return"
    /\ ucNotifyState' = xTaskNotifyWaitExit(ucNotifyState)
    /\ nWaitReturns' = nWaitReturns + 1
    /\ firedSinceReturn' = 0
    /\ pc' = "update"
    /\ UNCHANGED <<orientation_result, schedVars, taskState, i2c_semaphore, semCount, busVars,
                   result, orientation, data, holders, busOps, failure, nFirings,
                   nNotifies, firedWhileBusy, faultFirings, unserved, stageHist,
                   readHist, reportHist>>

(***************************************************************************)
(* motionsensor_interrupt_handler: runs on every firing of the registered  *)
(* orientation interrupt, whatever the tasks are doing.                    *)
(***************************************************************************)
\* variant: a handler that reads and classifies in interrupt context
motionsensor_interrupt_handler_Reads ==
    /\ irqRegistered
    /\ nFirings < MaxFirings
    /\ ucNotifyState' = xTaskNotifyFromISR(ucNotifyState)
    /\ taskState' = IF ucNotifyState = "WAITING" THEN "ready" ELSE taskState
    /\ \E sample \in Samples :
          /\ data' = sample
          /\ orientation' = ClassifyOrientation(sample)
    /\ nFirings' = nFirings + 1
    /\ nNotifies' = nNotifies + 1
    /\ firedWhileBusy' = (firedWhileBusy \/ ucNotifyState # "WAITING")
    /\ firedSinceReturn' = firedSinceReturn + 1
    /\ faultFirings' = faultFirings + (IF failure = "none" THEN 0 ELSE 1)
    /\ unserved' = TRUE
    /\ UNCHANGED <<orientation_result, schedVars, pc, i2c_semaphore, semCount, busVars, result,
                   holders, busOps, failure, nWaitReturns, stageHist, readHist,
                   reportHist>>

motionsensor_interrupt_handler ==
    /\ irqRegistered
    /\ nFirings < MaxFirings
    /\ ucNotifyState' = xTaskNotifyFromISR(ucNotifyState)
    /\ taskState' = IF ucNotifyState = "WAITING" THEN "ready" ELSE taskState
    /\ nFirings' = nFirings + 1
    /\ nNotifies' = nNotifies + 1
    /\ firedWhileBusy' = (firedWhileBusy \/ ucNotifyState # "WAITING")
    /\ firedSinceReturn' = firedSinceReturn + 1
    /\ faultFirings' = faultFirings + (IF failure = "none" THEN 0 ELSE 1)
    /\ unserved' = TRUE
    /\ UNCHANGED <<orientation_result, schedVars, pc, i2c_semaphore, semCount, busVars, result,
                   orientation, data, holders, busOps, failure, nWaitReturns,
                   stageHist, readHist, reportHist>>

(***************************************************************************)
(* Specifications.                                                         *)
(***************************************************************************)
MainNext == main_create_mqtt \/ main_create_tft \/ main_start_scheduler

TaskNext ==
    \/ task_create_semaphore \/ task_give_semaphore
    \/ init_take \/ init_i2c_init \/ init_i2c_configure \/ init_bmi160_init \/ init_give
    \/ config_take \/ config_int_begin \/ config_int_end \/ config_give
    \/ update_clear \/ read_take \/ read_begin \/ read_end \/ read_give
    \/ update_classify \/ task_report \/ task_wait \/ task_wait_return

Next ==
    \/ main_create_mqtt \/ main_create_tft \/ main_start_scheduler
    \/ tft_task
    \/ create_motion_sensor_task
    \/ task_create_semaphore \/ task_give_semaphore
    \/ init_take \/ init_i2c_init \/ init_i2c_configure \/ init_bmi160_init \/ init_give
    \/ config_take \/ config_int_begin \/ config_int_end \/ config_give
    \/ update_clear \/ read_take \/ read_begin \/ read_end \/ read_give
    \/ update_classify \/ task_report \/ task_wait \/ task_wait_return
    \/ motionsensor_interrupt_handler

Spec == Init /\ [][Next]_vars

\* The Motion Sensor task has the highest priority (TASK_MOTION_SENSOR_PRIORITY)
\* and main() runs to the start of the scheduler: a ready task_motion step and
\* a step of main() are eventually taken.
FairSpec == Init /\ [][Next]_vars /\ WF_vars(MainNext) /\ WF_vars(TaskNext)
             /\ WF_vars(create_motion_sensor_task)

(***************************************************************************)
(* The classifier on its own: the state after a successful read of any     *)
(* sample of ClassifierSamples, from which the task classifies.            *)
(***************************************************************************)
InitClassifier ==
    /\ mainPc = "running"
    /\ tasks = {"mqtt", "tft", "motion"}
    /\ tftPc = "loop"
    /\ motion_sensor_task_handle = "motion"
    /\ createResult = CY_RSLT_SUCCESS
    /\ taskState = "ready"
    /\ pc = "classify"
    /\ i2c_semaphore = "handle"
    /\ semCount = 1
    /\ kit_i2c = "configured"
    /\ motion_sensor = "int_configured"
    /\ irqRegistered = TRUE
    /\ ucNotifyState = "NOT_WAITING"
    /\ result = CY_RSLT_SUCCESS
    /\ orientation = ORIENTATION_NULL
    /\ data \in ClassifierSamples
    /\ orientation_result = "&orientation"
    /\ holders = {}
    /\ busOps = {}
    /\ failure = "none"
    /\ nFirings = 0
    /\ nNotifies = 0
    /\ firedWhileBusy = FALSE
    /\ firedSinceReturn = 0
    /\ faultFirings = 0
    /\ unserved = FALSE
    /\ nWaitReturns = 0
    /\ nInit = 1
    /\ nConfig = 1
    /\ initOK = TRUE
    /\ configOK = TRUE
    /\ nReads = 1
    /\ busSample = data
    /\ nReports = 0
    /\ iterReports = 0
    /\ reported = ORIENTATION_NULL
    /\ lastReportIter = 0

NextClassifier == update_classify

ClassifierSpec == InitClassifier /\ [][NextClassifier]_vars

(***************************************************************************)
(* motionsensor_update_orientation on its own: the state in which the      *)
(* function is entered for the first time, with either argument the        *)
(* parameter admits and any value in the caller's uninitialized            *)
(* 'orientation'; the steps are those of one call and its CHECK_RESULT.    *)
(***************************************************************************)
InitUpdate ==
    /\ mainPc = "running"
    /\ tasks = {"mqtt", "tft", "motion"}
    /\ tftPc = "loop"
    /\ motion_sensor_task_handle = "motion"
    /\ createResult = CY_RSLT_SUCCESS
    /\ taskState = "ready"
    /\ pc = "update"
    /\ i2c_semaphore = "handle"
    /\ semCount = 1
    /\ kit_i2c = "configured"
    /\ motion_sensor = "int_configured"
    /\ irqRegistered = TRUE
    /\ ucNotifyState = "NOT_WAITING"
    /\ result = CY_RSLT_SUCCESS
    /\ orientation \in orientation_t
    /\ data = NoSample
    /\ orientation_result \in {"NULL", "&orientation"}
    /\ holders = {}
    /\ busOps = {}
    /\ failure = "none"
    /\ nFirings = 0
    /\ nNotifies = 0
    /\ firedWhileBusy = FALSE
    /\ firedSinceReturn = 0
    /\ faultFirings = 0
    /\ unserved = FALSE
    /\ nWaitReturns = 0
    /\ nInit = 1
    /\ nConfig = 1
    /\ initOK = TRUE
    /\ configOK = TRUE
    /\ nReads = 0
    /\ busSample = NoSample
    /\ nReports = 0
    /\ iterReports = 0
    /\ reported = ORIENTATION_NULL
    /\ lastReportIter = 0

NextUpdate ==
    \/ update_clear \/ read_take \/ read_begin \/ read_end \/ read_give
    \/ update_classify

UpdateSpec == InitUpdate /\ [][NextUpdate]_vars

(***************************************************************************)
(* Properties.                                                             *)
(***************************************************************************)
\* the mathematical absolute value
Magnitude(v) == IF v < 0 THEN 0 - v ELSE v

SixOrientations == {ORIENTATION_TOP_EDGE, ORIENTATION_BOTTOM_EDGE,
                    ORIENTATION_LEFT_EDGE, ORIENTATION_RIGHT_EDGE,
                    ORIENTATION_DISP_UP, ORIENTATION_DISP_DOWN}

\* C1: mutual exclusion on the bus.  At most one logical operation holds
\* i2c_semaphore, a holder and a free token never coexist, at most one bus
\* operation is in progress, and a bus operation in progress belongs to the
\* holder -- in every state, whatever main(), the TFT task and the interrupt
\* handler have done.
C1_MutualExclusion ==
    /\ semCount \in {0, 1}
    /\ Cardinality(holders) <= 1
    /\ Cardinality(holders) + semCount <= 1
    /\ Cardinality(busOps) <= 1
    /\ busOps \subseteq holders

\* C1 witness: a read is in progress under the semaphore while the interrupt
\* has fired and the TFT task is in its loop.
C1_Witness ==
    /\ busOps = {"read"} /\ holders = {"read"} /\ semCount = 0
    /\ nFirings >= 1 /\ tftPc = "delay"

\* C2 (as claimed): whenever the task is halted after an I2C init, I2C
\* configure, sensor init, interrupt configuration or read failure, or is
\* blocked in the wait, the semaphore is free.
C2_GuardFreeWhenHalted ==
    (\/ /\ taskState = "suspended"
        /\ failure \in {"i2c_init", "i2c_configure", "sensor_init",
                        "config_interrupt", "read"}
     \/ taskState = "blocked")
    => (semCount = 1 /\ holders = {})

\* C3: Faulted is terminal.  Once the task has observed a failure, no step
\* changes the semaphore, its holders, the bus operations in progress, the
\* numbers of initializations, configurations, reads and reports, or the
\* position of the task, however many interrupts fire; and a failure in the
\* start-up up to the sensor initialization leaves the run without a report.
C3_FaultedTerminal ==
    /\ [][failure # "none" =>
            /\ failure' = failure
            /\ UNCHANGED <<semCount, holders, busOps, nInit, nConfig, nReads,
                           nReports, reported, pc, taskState>>]_vars
    /\ [](failure \in {"semaphore", "i2c_init", "i2c_configure", "sensor_init"}
            => nReports = 0)

\* C3 witness: the task faulted on a read after a report, and the interrupt
\* has fired since.
C3_Witness ==
    /\ failure = "read" /\ taskState = "suspended"
    /\ faultFirings >= 2 /\ nReports >= 1

\* C4: no lost wake-up.  Under fair scheduling, a firing that no read has
\* started after is eventually followed by the start of a read, and a
\* pending wake is eventually delivered, unless a driver call fails; the
\* number of wake deliveries never exceeds the number of firings.
C4_NoLostWakeup ==
    /\ [](nWaitReturns <= nFirings)
    /\ [](unserved => <>(~unserved \/ failure # "none"))
    /\ [](ucNotifyState = "RECEIVED" =>
            <>(ucNotifyState # "RECEIVED" \/ failure # "none"))

\* C4 witness: a firing found the task busy, the wake was delivered and a
\* further read has started after it, with no failure.
C4_Witness ==
    /\ firedWhileBusy /\ nWaitReturns >= 1 /\ nReads >= 2
    /\ ~unserved /\ failure = "none"

\* C5: the wake signal is single-slot.  A wake is pending exactly when the
\* interrupt has fired since the last return from the wait; every return
\* from the wait follows at least one firing and leaves no wake pending, so
\* any number of firings between two waits causes one return.
C5_SingleSlotWake ==
    /\ []((ucNotifyState = "RECEIVED") <=> (firedSinceReturn >= 1))
    /\ [][nWaitReturns' = nWaitReturns + 1 =>
            /\ firedSinceReturn >= 1
            /\ ucNotifyState' # "RECEIVED"
            /\ nWaitReturns' <= nFirings]_vars

\* C5 witness: three firings before one return from the wait, and the task
\* is blocked in the next wait.
C5_Witness ==
    /\ nFirings >= 3 /\ nWaitReturns = 1 /\ firedSinceReturn = 0
    /\ pc = "wait_return" /\ taskState = "blocked"

\* C6: the interrupt handler only signals.  A firing sends one notification
\* and changes neither the semaphore nor its holders, the bus operations,
\* the I2C and sensor objects, the sample, the orientation, the reports or
\* the position of the task; and the handler can run whenever the interrupt
\* is registered, also while the semaphore is held.
C6_HandlerOnlySignals ==
    /\ [][nFirings' = nFirings + 1 =>
            /\ nNotifies' = nNotifies + 1
            /\ ucNotifyState' = "RECEIVED"
            /\ UNCHANGED <<i2c_semaphore, semCount, holders, busOps, kit_i2c,
                           motion_sensor, irqRegistered, data, orientation,
                           result, pc, nReads, nReports, reported>>]_vars
    /\ []((irqRegistered /\ nFirings < MaxFirings)
            => ENABLED motionsensor_interrupt_handler)

\* C6 witness: the interrupt fired during a read, while the task held the
\* semaphore.
C6_Witness ==
    /\ pc = "read_end" /\ holders = {"read"} /\ semCount = 0
    /\ unserved /\ ucNotifyState = "RECEIVED"

\* C7: start-up ordering.  An interrupt configuration is started only after
\* a successful initialization, a read only after a successful interrupt
\* configuration; initialization and configuration are each started at most
\* once; each operation runs under the semaphore, which is released before
\* the next operation acquires it.
C7_StartupOrdering ==
    /\ nConfig >= 1 => initOK
    /\ nReads >= 1 => configOK
    /\ nInit <= 1 /\ nConfig <= 1
    /\ busOps \subseteq holders
    /\ pc \in {"init_take", "config_take", "read_take"} => holders = {}

\* C7 witness: the task is in its second read after one initialization and
\* one interrupt configuration.
C7_Witness ==
    /\ nInit = 1 /\ nConfig = 1 /\ initOK /\ configOK
    /\ nReads = 2 /\ busOps = {"read"}

\* C8: one report per completed classification cycle.  After a successful
\* read the classified orientation is one of the six concrete values;
\* nothing is reported between the start of the iteration and the switch,
\* and between the switch and the return of the wait exactly one report of
\* this iteration has been emitted, never ORIENTATION_NULL.
C8_OneReportPerCycle ==
    /\ pc \in {"read_take", "read", "read_end", "read_give", "classify"}
          => iterReports = 0
    /\ (pc = "report" /\ result = CY_RSLT_SUCCESS)
          => (iterReports = 0 /\ orientation \in SixOrientations)
    /\ (pc \in {"wait", "wait_return"} /\ result = CY_RSLT_SUCCESS)
          => /\ iterReports = 1
             /\ reported \in SixOrientations
             /\ lastReportIter = nReads
    /\ nReports <= nReads

\* C8 witness: the second iteration has reported ORIENTATION_DISP_DOWN once.
C8_Witness ==
    /\ pc = "wait" /\ nReads = 2 /\ nReports = 2 /\ iterReports = 1
    /\ reported = ORIENTATION_DISP_DOWN

\* C9: no stale data.  Every report belongs to a later iteration than the
\* report before it and carries the classification of the sample that the
\* bus read of that iteration delivered.
C9_NoStaleData ==
    [][nReports' = nReports + 1 =>
          /\ lastReportIter' = nReads
          /\ lastReportIter' > lastReportIter
          /\ reported' = ClassifyOrientation(busSample)]_vars

\* C9 witness: two iterations have reported, the second after a wake, and
\* the second sample classifies differently from the sample of a face-up
\* board.
C9_Witness ==
    /\ nReports = 2 /\ lastReportIter = 2 /\ nWaitReturns = 1
    /\ busSample = [x |-> -1, y |-> 0, z |-> 0]
    /\ reported = ORIENTATION_RIGHT_EDGE

\* C10: for every sample with |z| > |x| and |z| > |y| the classified
\* orientation is ORIENTATION_DISP_DOWN if z is negative and
\* ORIENTATION_DISP_UP otherwise.
C10_ZDominant ==
    (/\ pc = "report"
     /\ Magnitude(data.z) > Magnitude(data.x)
     /\ Magnitude(data.z) > Magnitude(data.y))
    => orientation = (IF data.z < 0 THEN ORIENTATION_DISP_DOWN
                                    ELSE ORIENTATION_DISP_UP)

\* C10 witness: the sample (10, 20, -900) has been classified as
\* ORIENTATION_DISP_DOWN.
C10_Witness ==
    /\ pc = "report"
    /\ data = [x |-> 10, y |-> 20, z |-> -900]
    /\ orientation = ORIENTATION_DISP_DOWN

\* the three cases of the documented decision table, on mathematical
\* magnitudes
ZStrictlyDominant(d) ==
    Magnitude(d.z) > Magnitude(d.x) /\ Magnitude(d.z) > Magnitude(d.y)

YOverXAtLeastZ(d) ==
    Magnitude(d.y) > Magnitude(d.x) /\ Magnitude(d.y) >= Magnitude(d.z)

YStrictlyDominant(d) ==
    Magnitude(d.y) > Magnitude(d.x) /\ Magnitude(d.y) > Magnitude(d.z)

C12_XFallback ==
    (pc = "report" /\ ~ZStrictlyDominant(data) /\ ~YOverXAtLeastZ(data))
    => orientation = (IF data.x < 0 THEN ORIENTATION_RIGHT_EDGE
                                    ELSE ORIENTATION_LEFT_EDGE)

\* C12 witness: the sample (-600, 50, 100) has been classified as
\* ORIENTATION_RIGHT_EDGE.
C12_Witness ==
    /\ pc = "report"
    /\ data = [x |-> -600, y |-> 50, z |-> 100]
    /\ orientation = ORIENTATION_RIGHT_EDGE

\* the two tie patterns of the documented precedence
TieZY(d) ==
    Magnitude(d.z) = Magnitude(d.y) /\ Magnitude(d.y) >= Magnitude(d.x)

TieYX(d) ==
    Magnitude(d.y) = Magnitude(d.x) /\ Magnitude(d.x) > Magnitude(d.z)

OrientationOf(d) ==
    IF ZStrictlyDominant(d)
    THEN (IF d.z < 0 THEN ORIENTATION_DISP_DOWN ELSE ORIENTATION_DISP_UP)
    ELSE IF YStrictlyDominant(d)
    THEN (IF d.y > 0 THEN ORIENTATION_BOTTOM_EDGE ELSE ORIENTATION_TOP_EDGE)
    ELSE (IF d.x < 0 THEN ORIENTATION_RIGHT_EDGE ELSE ORIENTATION_LEFT_EDGE)

\* C14: the classification is deterministic and stateless.  In every
\* iteration, whatever the earlier samples, the earlier reports and the
\* number of interrupts, the orientation after a successful read is one fixed
\* function of the sample delivered by that read; and the classifying step
\* changes neither the sample, the semaphore, the bus objects, the
\* notification state nor the reports.
C14_DeterministicStateless ==
    /\ []((pc = "report" /\ result = CY_RSLT_SUCCESS)
            => orientation = OrientationOf(busSample))
    /\ [][(pc = "classify" /\ pc' = "report") =>
            UNCHANGED <<data, busSample, i2c_semaphore, semCount, holders,
                        busOps, kit_i2c, motion_sensor, irqRegistered,
                        ucNotifyState, result, nReads, nReports, reported>>]_vars

\* C14 witness: the third sample of a run, read after three interrupts and
\* two reports, has been classified.
C14_Witness ==
    /\ pc = "report" /\ result = CY_RSLT_SUCCESS
    /\ nReads = 3 /\ nReports = 2 /\ nFirings = 3
    /\ busSample = [x |-> 0, y |-> 1, z |-> -1]
    /\ orientation = ORIENTATION_LEFT_EDGE

\* C15: create_motion_sensor_task returns CY_RSLT_SUCCESS exactly when
\* xTaskCreate created the task and stored its handle, and a non-zero value
\* when it did not.
C15_CreateResult ==
    taskState # "none" =>
        /\ (createResult = CY_RSLT_SUCCESS) <=> (motion_sensor_task_handle = "motion")
        /\ (createResult = CY_RSLT_SUCCESS) <=> ("motion" \in tasks)
        /\ taskState = "failed" => createResult # 0

\* C15 witness: xTaskCreate failed and the call returned the status as the
\* non-zero cy_rslt_t 0xFFFFFFFF.
C15_Witness ==
    /\ taskState = "failed" /\ motion_sensor_task_handle = "NULL"
    /\ createResult = errCOULD_NOT_ALLOCATE_REQUIRED_MEMORY

\* C16: a fault of the Motion Sensor task is confined to that task.  The
\* step in which the task observes a failure changes neither main(), the
\* set of tasks nor the TFT task, and in every state after a failure the
\* scheduler is running and the TFT task can take its next step.
C16_FaultConfined ==
    /\ [][failure' # failure => UNCHANGED <<mainPc, tasks, tftPc>>]_vars
    /\ [](failure # "none" => (mainPc = "running" /\ ENABLED tft_task))

\* C16 witness: the task is suspended after a failed read and the TFT task
\* is in its loop.
C16_Witness ==
    /\ failure = "read" /\ taskState = "suspended"
    /\ mainPc = "running" /\ tftPc = "delay" /\ nReports >= 1

\* C17: the task blocks only in the wait for a notification.  Whenever the
\* task is about to take i2c_semaphore (in the initialization, the interrupt
\* configuration or a read) the token is there and nobody holds it; and the
\* task is blocked only inside xTaskNotifyWait.
C17_AcquireNeverBlocks ==
    /\ (taskState = "ready" /\ pc \in {"init_take", "config_take", "read_take"})
          => (semCount = 1 /\ holders = {})
    /\ taskState = "blocked" => (pc = "wait_return" /\ ucNotifyState = "WAITING")

\* C17 witness: the task is about to take the semaphore for its third read.
C17_Witness ==
    /\ taskState = "ready" /\ pc = "read_take" /\ nReads = 2 /\ semCount = 1

\* C18: the sensor handle and the bus object change only in steps of the
\* Motion Sensor task taken while an operation of that task holds
\* i2c_semaphore; a step of the interrupt handler, of main() or of the TFT
\* task leaves them as they are.
C18_MutationUnderGuard ==
    [][(kit_i2c' # kit_i2c \/ motion_sensor' # motion_sensor) =>
          /\ holders # {} /\ semCount = 0
          /\ taskState = "ready" /\ pc' # pc
          /\ nFirings' = nFirings /\ tftPc' = tftPc /\ mainPc' = mainPc]_vars

\* C18 witness: the sensor has just been configured for the interrupt, under
\* the semaphore.
C18_Witness ==
    /\ pc = "config_give" /\ motion_sensor = "int_configured"
    /\ kit_i2c = "configured" /\ holders = {"config"} /\ semCount = 0

\* C19: reads are paced by wakes.  The number of reads started is at most
\* one more than the number of returns from the wait, which is at most the
\* number of interrupt firings; and whenever xTaskNotifyWait is about to
\* return, a notification is pending (the wait did not time out).
C19_ReadsPacedByWakes ==
    /\ nReads <= 1 + nWaitReturns
    /\ nWaitReturns <= nFirings
    /\ nReads <= 1 + nFirings
    /\ (pc = "wait_return" /\ taskState = "ready") => ucNotifyState = "RECEIVED"

\* C19 witness: every firing has been followed by one more read.
C19_Witness ==
    /\ nFirings = 3 /\ nWaitReturns = 3 /\ nReads = 4

\* C20: the initial orientation is reported without any interrupt.  Under
\* fair scheduling, once the interrupt configuration has succeeded a first
\* report follows unless the first read fails; with no firing there is at
\* most one report, the task is then blocked in the wait with the semaphore
\* free after exactly one report, and it stays blocked as long as the
\* interrupt does not fire.
C20_InitialReport ==
    /\ [](configOK => <>(nReports >= 1 \/ failure # "none"))
    /\ [](configOK => <>(taskState = "blocked" \/ nFirings > 0 \/ failure # "none"))
    /\ [](nFirings = 0 => nReports <= 1)
    /\ []((nFirings = 0 /\ taskState = "blocked")
            => (nReports = 1 /\ semCount = 1 /\ holders = {} /\ pc = "wait_return"))
    /\ [][(taskState = "blocked" /\ nFirings' = nFirings)
            => (taskState' = "blocked" /\ nReports' = nReports)]_vars

\* C20 witness: without any firing the task has reported once and is blocked
\* in the wait with the semaphore free.
C20_Witness ==
    /\ nFirings = 0 /\ nReports = 1 /\ taskState = "blocked"
    /\ pc = "wait_return" /\ semCount = 1 /\ irqRegistered

\* C21: starting leaves the semaphore free exactly once.  The semaphore is
\* created empty; when the task reaches its first acquisition exactly one
\* token is there and nobody holds it; and when the creation fails the task
\* is suspended before the give, with no token, and no initialization, no
\* interrupt configuration and no read is ever started.
C21_StartingGuard ==
    /\ pc = "give" => (semCount = 0 /\ holders = {})
    /\ pc = "init_take" => (i2c_semaphore = "handle" /\ semCount = 1 /\ holders = {})
    /\ (i2c_semaphore = "NULL") <=> (failure = "semaphore")
    /\ failure = "semaphore"
          => /\ taskState = "suspended" /\ pc = "give"
             /\ semCount = 0
             /\ nInit = 0 /\ nConfig = 0 /\ nReads = 0 /\ ~irqRegistered

\* C21 witness: the creation has failed and the task is suspended while the
\* TFT task goes on.
C21_Witness ==
    /\ failure = "semaphore" /\ taskState = "suspended"
    /\ i2c_semaphore = "NULL" /\ semCount = 0 /\ tftPc = "delay"

\* C22: a failed read never publishes an orientation.  During the read the
\* orientation is ORIENTATION_NULL; once the task has observed a read
\* failure the orientation is still ORIENTATION_NULL, the semaphore is free,
\* the task is suspended in front of the switch with no report in that
\* iteration; and afterwards no read is started and no report is emitted.
C22_FailedReadPublishesNothing ==
    /\ [](pc \in {"read_take", "read", "read_end", "read_give", "classify"}
            => orientation = ORIENTATION_NULL)
    /\ []((pc = "classify" /\ result # CY_RSLT_SUCCESS)
            => (semCount = 1 /\ holders = {}))
    /\ [](failure = "read"
            => /\ orientation = ORIENTATION_NULL
               /\ result # CY_RSLT_SUCCESS
               /\ semCount = 1 /\ holders = {}
               /\ taskState = "suspended" /\ pc = "report"
               /\ iterReports = 0 /\ lastReportIter < nReads)
    /\ [][failure = "read" => (nReads' = nReads /\ nReports' = nReports)]_vars

\* C22 witness: the first iteration reported an orientation and the read of
\* the second iteration has failed.
C22_Witness ==
    /\ failure = "read" /\ nReads = 2 /\ nReports = 1 /\ lastReportIter = 1
    /\ orientation = ORIENTATION_NULL /\ taskState = "suspended"

\* the axes whose magnitude is the largest of the sample
AxesAtMax(d) ==
    {a \in {"x", "y", "z"} :
        \A b \in {"x", "y", "z"} : Magnitude(d[a]) >= Magnitude(d[b])}

C24_HandlerAfterRegistration ==
    /\ [](irqRegistered
            => /\ motion_sensor_task_handle = "motion" /\ "motion" \in tasks
               /\ mainPc = "running" /\ nConfig >= 1)
    /\ [](ENABLED motionsensor_interrupt_handler
            => motion_sensor_task_handle = "motion")
    /\ [][nNotifies' # nNotifies
            => (irqRegistered /\ motion_sensor_task_handle = "motion")]_vars

\* C24 witness: the handler has notified the task before
\* mtb_bmi160_config_int has returned.
C24_Witness ==
    /\ nNotifies >= 1 /\ pc = "config_int_end"
    /\ ucNotifyState = "RECEIVED" /\ motion_sensor_task_handle = "motion"

\* C25 (as claimed): whenever the scheduler runs, main() has created the
\* Motion Sensor task.
C25_MainCreatesMotionTask ==
    mainPc = "running" => ("motion" \in tasks /\ taskState # "none")

\* C26: magnitudes do not wrap.  For every component of a sample, -32768
\* included, the value stored in abs_x, abs_y, abs_z is the mathematical
\* absolute value, in 0..32768; and a sample with z = -32768 and
\* |x|, |y| < 32768 is classified ORIENTATION_DISP_DOWN.
C26_NoWraparound ==
    /\ \A a \in {"x", "y", "z"} :
          /\ Abs16(data[a]) = Magnitude(data[a])
          /\ Abs16(data[a]) \in 0..32768
    /\ (pc = "report" /\ data.z = -32768
          /\ Magnitude(data.x) < 32768 /\ Magnitude(data.y) < 32768)
          => orientation = ORIENTATION_DISP_DOWN

\* C26 witness: the sample (32767, -900, -32768) has been classified as
\* ORIENTATION_DISP_DOWN.
C26_Witness ==
    /\ pc = "report"
    /\ data = [x |-> 32767, y |-> -900, z |-> -32768]
    /\ orientation = ORIENTATION_DISP_DOWN

\* C27: a call of motionsensor_update_orientation with a NULL
\* orientation_result stores BMI160_E_NULL_PTR, which is not
\* CY_RSLT_SUCCESS, takes no token, starts no bus read and writes no
\* orientation; the task is then suspended by CHECK_RESULT as after a
\* failed read.
C27_NullResultPointer ==
    /\ [][(orientation_result = "NULL" /\ pc = "update" /\ pc' # pc)
            => /\ result' = BMI160_E_NULL_PTR /\ result' # CY_RSLT_SUCCESS
               /\ pc' = "classify"
               /\ UNCHANGED <<semCount, holders, busOps, nReads, orientation>>]_vars
    /\ [](orientation_result = "NULL"
            => (nReads = 0 /\ semCount = 1 /\ holders = {} /\ busOps = {}))
    /\ []((orientation_result = "NULL" /\ pc = "report")
            => (taskState = "suspended" /\ failure # "none"
                /\ result = BMI160_E_NULL_PTR))

\* C27 witness: the task is suspended after a call with a NULL argument.
C27_Witness ==
    /\ orientation_result = "NULL" /\ pc = "report"
    /\ taskState = "suspended" /\ result = BMI160_E_NULL_PTR /\ nReads = 0

=============================================================================
